---- MODULE Spec2Model ----
(***************************************************************************)
(* A model of pint/registry.py: the composed registry classes, the         *)
(* deferred-construction handle LazyRegistry and the process-wide          *)
(* indirection handle ApplicationRegistry.                                 *)
(*                                                                         *)
(* The state is a small heap of Python objects.  Every object has an      *)
(* identity (its index), a class (the value of type(obj), which the lazy   *)
(* handle rewrites in place), and the fields the classes of the module     *)
(* use: the stored construction arguments of a LazyRegistry               *)
(* (__dict__["params"]), the attributes of a registry, and the _registry   *)
(* slot of an ApplicationRegistry.  Each method of the source is an        *)
(* operator from a heap to an outcome (the heap after the call, the value  *)
(* returned, the exception raised); each action of the specification is    *)
(* one call made by application code.                                      *)
(*                                                                         *)
(* A second pair of specifications runs the same calls statement by        *)
(* statement: pc is the statement each thread of the application is at,    *)
(* frame the local variables of the call it is in, calls the number of     *)
(* calls the threads have started.  Under Spec every call is one step and  *)
(* these three never change.                                               *)
(*                                                                         *)
(* composed is the composed type whose method resolution order is being    *)
(* looked at, and the lookup made in it; it changes only under SpecM.      *)
(***************************************************************************)
EXTENDS Integers, Sequences, FiniteSets

VARIABLES cls, params, attrs, registry, inits, ready, last, pc, frame, calls,
          composed

vars == <<cls, params, attrs, registry, inits, ready, last, pc, frame, calls,
          composed>>

(***************************************************************************)
(* Bounds of the model.                                                    *)
(***************************************************************************)
\* Number of objects the heap holds, and number of objects application code
\* creates one by one under Spec.
MaxObjs == 4
MaxCreated == 3

Objs == 1..MaxObjs

\* Number of threads of the application, and of calls they make together,
\* when calls are run statement by statement.
MaxThreads == 2
MaxCalls == 2

Threads == 1..MaxThreads

(***************************************************************************)
(* Classes.  Bases gives the direct bases of a class as the class          *)
(* statement lists them.  The bases of the facet registries other than     *)
(* the numpy one are defined outside this module; none of them can derive  *)
(* from a class defined here, which is all isinstance below needs.         *)
(***************************************************************************)
NoClass == ""

\* The class statements with the array facet of Unit listed before the
\* lazy-array facet.
Bases_UnitReordered(c) ==
    CASE c = "UnitRegistry" -> <<"GenericUnitRegistry">>
      [] c = "GenericUnitRegistry" ->
            <<"GenericSystemRegistry", "GenericContextRegistry",
              "GenericDaskRegistry", "GenericNumpyRegistry",
              "GenericMeasurementRegistry",
              "GenericNonMultiplicativeRegistry", "GenericPlainRegistry">>
      [] c = "Quantity" ->
            <<"SystemQuantity", "ContextQuantity", "DaskQuantity",
              "NumpyQuantity", "MeasurementQuantity",
              "NonMultiplicativeQuantity", "PlainQuantity", "Generic">>
      [] c = "Unit" ->
            <<"SystemUnit", "ContextUnit", "NumpyUnit", "DaskUnit",
              "MeasurementUnit", "NonMultiplicativeUnit", "PlainUnit">>
      [] c = "GenericNumpyRegistry" -> <<"GenericPlainRegistry">>
      [] c = "NumpyRegistry" -> <<"GenericPlainRegistry">>
      [] c = "LazyRegistry" -> <<"object">>
      [] c = "ApplicationRegistry" -> <<"object">>
      [] c = "str" -> <<"object">>
      [] OTHER -> <<>>

Bases(c) ==
    CASE c = "UnitRegistry" -> <<"GenericUnitRegistry">>
      [] c = "GenericUnitRegistry" ->
            <<"GenericSystemRegistry", "GenericContextRegistry",
              "GenericDaskRegistry", "GenericNumpyRegistry",
              "GenericMeasurementRegistry",
              "GenericNonMultiplicativeRegistry", "GenericPlainRegistry">>
      [] c = "Quantity" ->
            <<"SystemQuantity", "ContextQuantity", "DaskQuantity",
              "NumpyQuantity", "MeasurementQuantity",
              "NonMultiplicativeQuantity", "PlainQuantity", "Generic">>
      [] c = "Unit" ->
            <<"SystemUnit", "ContextUnit", "DaskUnit", "NumpyUnit",
              "MeasurementUnit", "NonMultiplicativeUnit", "PlainUnit">>
      [] c = "GenericNumpyRegistry" -> <<"GenericPlainRegistry">>
      [] c = "NumpyRegistry" -> <<"GenericPlainRegistry">>
      [] c = "LazyRegistry" -> <<"object">>
      [] c = "ApplicationRegistry" -> <<"object">>
      [] c = "str" -> <<"object">>
      [] OTHER -> <<>>

Range(f) == {f[i] : i \in DOMAIN f}

\* issubclass(c, d): d is c or is reached from c through the bases.
RECURSIVE IsSubclass(_, _)
IsSubclass(c, d) ==
    \/ c = d
    \/ \E b \in Range(Bases(c)) : IsSubclass(b, d)

\* The classes application code instantiates in the model: the two handles,
\* the registry types of the repository, and one unrelated type.
RegistryClasses == {"UnitRegistry", "GenericUnitRegistry", "NumpyRegistry"}

InstanceClasses ==
    {"LazyRegistry", "ApplicationRegistry", "str"} \cup RegistryClasses

(***************************************************************************)
(* Facet composition.  The three composed types list one class of each     *)
(* facet among their bases; the classes of the facets are defined outside  *)
(* this module (pint.facets), but for GenericNumpyRegistry.  A facet class *)
(* either builds on the plain class of its kind or stands alone; derived   *)
(* is the set of facets whose classes build on the plain one.              *)
(***************************************************************************)
\* The facets, and the class each contributes to each composed type.
FacetClasses ==
    [system |-> [Quantity |-> "SystemQuantity", Unit |-> "SystemUnit",
                 Registry |-> "GenericSystemRegistry"],
     context |-> [Quantity |-> "ContextQuantity", Unit |-> "ContextUnit",
                  Registry |-> "GenericContextRegistry"],
     dask |-> [Quantity |-> "DaskQuantity", Unit |-> "DaskUnit",
               Registry |-> "GenericDaskRegistry"],
     numpy |-> [Quantity |-> "NumpyQuantity", Unit |-> "NumpyUnit",
                Registry |-> "GenericNumpyRegistry"],
     measurement |-> [Quantity |-> "MeasurementQuantity",
                      Unit |-> "MeasurementUnit",
                      Registry |-> "GenericMeasurementRegistry"],
     nonmultiplicative |-> [Quantity |-> "NonMultiplicativeQuantity",
                            Unit |-> "NonMultiplicativeUnit",
                            Registry |-> "GenericNonMultiplicativeRegistry"],
     plain |-> [Quantity |-> "PlainQuantity", Unit |-> "PlainUnit",
                Registry |-> "GenericPlainRegistry"]]

Facets == DOMAIN FacetClasses
Kinds == {"Quantity", "Unit", "Registry"}

\* The composed types and the kind of each.
ComposedTypes == {"Quantity", "Unit", "GenericUnitRegistry", "UnitRegistry"}
KindOf(c) == IF c \in {"Quantity", "Unit"} THEN c ELSE "Registry"

\* The class is the contribution of some facet.
IsFacetClass(c) == \E f \in Facets, k \in Kinds : FacetClasses[f][k] = c
FacetOf(c) == CHOOSE f \in Facets : \E k \in Kinds : FacetClasses[f][k] = c
KindOfFacetClass(c) == CHOOSE k \in Kinds : FacetClasses[FacetOf(c)][k] = c

\* The bases of a class: those its class statement in this repository lists,
\* and for a facet class defined elsewhere the plain class of its kind or
\* object.
BasesUnder(c, derived) ==
    IF Bases(c) # <<>> THEN Bases(c)
    ELSE IF c = "object" THEN <<>>
    ELSE IF IsFacetClass(c) /\ FacetOf(c) # "plain" /\ FacetOf(c) \in derived
    THEN <<FacetClasses["plain"][KindOfFacetClass(c)]>>
    ELSE <<"object">>

\* The merge of the C3 linearization: the first head that is in the tail of
\* no list, then the merge of the lists without it.
RECURSIVE Merge(_)
Merge(lists) ==
    LET NonEmpty(q) == q # <<>>
        ne == SelectSeq(lists, NonEmpty)
    IN  IF ne = <<>> THEN <<>>
        ELSE LET good == {i \in DOMAIN ne :
                            \A j \in DOMAIN ne :
                                Head(ne[i]) \notin Range(Tail(ne[j]))}
             IN  IF good = {} THEN <<"<inconsistent>">>
                 ELSE LET i0 == CHOOSE i \in good : \A j \in good : i <= j
                          h == Head(ne[i0])
                      IN  <<h>> \o Merge([k \in DOMAIN ne |->
                                 IF Head(ne[k]) = h THEN Tail(ne[k])
                                 ELSE ne[k]])

\* type.mro(c): the class, then the merge of the linearizations of its
\* bases and of the list of its bases.
RECURSIVE Mro(_, _)
Mro(c, derived) ==
    LET bs == BasesUnder(c, derived) IN
    <<c>> \o Merge([i \in 1..Len(bs) |-> Mro(bs[i], derived)] \o <<bs>>)

\* Attribute lookup on a composed type for an operation that the facets in
\* defines define: the first class of the linearization that defines it.
Resolve(mro, defines) ==
    LET hits == {i \in DOMAIN mro :
                    IsFacetClass(mro[i]) /\ FacetOf(mro[i]) \in defines}
    IN  IF hits = {} THEN NoClass
        ELSE mro[CHOOSE i \in hits : \A j \in hits : i <= j]

(***************************************************************************)
(* Values.                                                                 *)
(***************************************************************************)
\* on_redefinition as a caller may pass it; Absent: the keyword is not given.
Absent == "<absent>"
Policies == {"warn", "raise", "ignore"}

\* Position of on_redefinition among the parameters of
\* UnitRegistry.__init__ (after self): that many positional arguments bind it.
OnRedefinitionPos == 6

\* Numbers of positional construction arguments tried: none, the filename
\* alone, and enough to reach on_redefinition.
ArgCounts == {0, 1, OnRedefinitionPos}

\* filename, the first positional argument: the default definitions (""), a
\* definitions source in which a unit is defined twice, and a source that is
\* no definitions source at all.
DefaultSource == ""
ConflictSource == "conflict"
InvalidSource == "invalid"

\* The construction arguments tried: no positional argument with every
\* choice of the on_redefinition keyword, a definitions source of each kind
\* as the only positional argument, and positional arguments up to
\* on_redefinition without the keyword.
Params ==
    {[nargs |-> 0, filename |-> DefaultSource, on_redefinition |-> p] :
        p \in {Absent, "warn", "ignore"}}
    \cup {[nargs |-> 1, filename |-> f, on_redefinition |-> Absent] :
             f \in {ConflictSource, InvalidSource}}
    \cup {[nargs |-> OnRedefinitionPos, filename |-> DefaultSource,
           on_redefinition |-> Absent]}
\* What a handle stores: the number of positional arguments and the first of
\* them, and the dict of keyword arguments, of which the model follows the
\* identity (kwargs) and the entry on_redefinition.  Handles that store the
\* same dict have the same kwargs, and a write to the dict is a write to all
\* of them.
Stored(nargs, filename, on_redefinition, kwargs) ==
    [nargs |-> nargs, filename |-> filename,
     on_redefinition |-> on_redefinition, kwargs |-> kwargs]
NoParams == Stored(0 - 1, NoClass, NoClass, 0)

\* Attributes of a registry that the model follows, and what is stored there.
Unset == "<unset>"
AttrNames == {"_on_redefinition", "fmt_locale"}
\* The attribute application code writes, and the value it writes.
WriteNames == {"_on_redefinition"}
WriteValues == {"ignore"}
\* Names read or written through the handles: the registry attributes, the
\* stored arguments of the lazy handle, and the slot of the indirection handle.
Names == AttrNames \cup {"params", "_registry"}
\* Subscripts, call arguments and membership candidates.
Items == {"meter"}

\* What a registry keeps of its configuration: these attributes, and the
\* definitions source it was given.
RegistryAttrs == AttrNames \cup {"_filename"}
NoAttrs == [n \in RegistryAttrs |-> Unset]

(***************************************************************************)
(* Heaps and outcomes.                                                     *)
(***************************************************************************)
St == [cls |-> cls, params |-> params, attrs |-> attrs,
       registry |-> registry, inits |-> inits, ready |-> ready]

Ret(kind, on, arg) == [kind |-> kind, on |-> on, arg |-> arg]
RetNone == Ret("None", 0, "")
RetRef(o) == Ret("ref", o, "")
RetValue(v) == Ret("value", 0, v)

NoExc == ""
Out(s, ret) == [s |-> s, ret |-> ret, exc |-> NoExc]
\* An exception of class e; what names the type the message reports, if any.
Raise(s, e, what) == [s |-> s, ret |-> Ret("raised", 0, what), exc |-> e]

Allocated(s) == {o \in Objs : s.cls[o] # NoClass}
\* A LazyRegistry that has not started to materialize.
Pending(s, o) == s.cls[o] = "LazyRegistry"
\* An object created as a LazyRegistry, whatever its class is now.
LazyBorn(s, o) == s.params[o] # NoParams


\* isinstance(o, c)
isinstance(s, o, c) == IsSubclass(s.cls[o], c)

(***************************************************************************)
(* The registry base classes (pint.facets), which this module only calls.  *)
(* They store the configuration they are given, _after_init loads the      *)
(* definitions, and after it the registry answers the registry operations. *)
(* Setup fails on a source that is no definitions source, and on a unit     *)
(* defined twice when the policy is 'raise'.  The result of a registry     *)
(* operation is kept symbolic: which operation ran, on which registry,     *)
(* with which argument.                                                    *)
(***************************************************************************)
\* super().__init__(filename=filename, ..., on_redefinition=on_redefinition,
\* ..., fmt_locale=fmt_locale, ...): the base registries keep the
\* configuration, and reject a source they cannot read definitions from.
GenericUnitRegistry__init__(s, o, filename, on_redefinition, fmt_locale) ==
    IF filename = InvalidSource THEN Raise(s, "ValueError", "filename")
    ELSE Out([s EXCEPT !.attrs[o] = [n \in RegistryAttrs |->
                 CASE n = "_filename" -> filename
                   [] n = "_on_redefinition" -> on_redefinition
                   [] OTHER -> fmt_locale]], RetNone)

\* self._after_init(): the definitions are loaded and the registry is
\* complete; a unit defined twice aborts the setup under the policy 'raise'.
After_init(s, o) ==
    IF s.attrs[o]["_filename"] = ConflictSource
       /\ s.attrs[o]["_on_redefinition"] = "raise"
    THEN Raise(s, "RedefinitionError", "")
    ELSE Out([s EXCEPT !.ready[o] = TRUE], RetNone)

\* object.__setattr__: the class of the object, or an entry of its __dict__.
object__setattr__(s, o, key, value) ==
    IF key = "__class__" THEN [s EXCEPT !.cls[o] = value]
    ELSE IF key \in AttrNames THEN [s EXCEPT !.attrs[o][key] = value]
    ELSE s

\* Attribute read on a registry instance: an entry of its __dict__ (params is
\* one when the instance began as a LazyRegistry), a stored setting, or the
\* registry's own lookup of an unknown name.
Registry__getattr(s, o, name) ==
    IF name = "params"
    THEN IF LazyBorn(s, o)
         THEN Out(s, Ret("params", s.params[o].nargs,
                         s.params[o].on_redefinition))
         ELSE Raise(s, "AttributeError", name)
    ELSE IF name = "__contains__"
    THEN Out(s, Ret("method", o, name))
    ELSE IF name \in AttrNames /\ s.attrs[o][name] # Unset
         THEN Out(s, RetValue(s.attrs[o][name]))
         ELSE Raise(s, "AttributeError", name)

\* A registry operation kind (getitem, call, contains, iter) on registry o.
\* A registry whose construction did not complete has none of the tables the
\* operation reads.
RegistryOp(s, o, kind, arg) ==
    IF s.ready[o] THEN Out(s, Ret(kind, o, arg))
    ELSE Raise(s, "AttributeError", kind)

(***************************************************************************)
(* UnitRegistry                                                            *)
(***************************************************************************)
DefaultOnRedefinition == "warn"
DefaultFmtLocale == "None"
\* The value application code passes for on_redefinition when it passes it
\* by position.
PositionalPolicy == "ignore"

\* UnitRegistry.__init__(self, *args, **kwargs) with nargs positional
\* arguments, the first of them filename, and on_redefinition (or Absent) as
\* the only keyword.  Passing
\* on_redefinition by position and by keyword is a TypeError of the call:
\* the arguments do not bind and the body is not entered.
UnitRegistry__init__(s, o, nargs, filename, on_redefinition) ==
    LET s1 == [s EXCEPT !.inits[o] = @ + 1] IN
    IF nargs >= OnRedefinitionPos /\ on_redefinition # Absent
    THEN Raise(s, "TypeError", "on_redefinition")
    ELSE LET policy == IF on_redefinition # Absent THEN on_redefinition
                       ELSE IF nargs >= OnRedefinitionPos
                            THEN PositionalPolicy
                            ELSE DefaultOnRedefinition
         IN  GenericUnitRegistry__init__(s1, o, filename, policy,
                                         DefaultFmtLocale)

(***************************************************************************)
(* LazyRegistry                                                            *)
(***************************************************************************)
\* LazyRegistry.__init__(self, args=None, kwargs=None).  kwargs is 0 when
\* the caller passes None or a new dict holding on_redefinition (or nothing),
\* and the identity of a dict another handle stores when the caller passes
\* that dict again.  `kwargs or {}` is the caller's dict itself unless it is
\* empty; a new dict takes the identity of the handle that stores it first.
LazyRegistry__init__(s, o, nargs, filename, on_redefinition, kwargs) ==
    LET holders == {h \in Objs : s.params[h].kwargs = kwargs}
        held == IF kwargs = 0 \/ holders = {} THEN on_redefinition
                ELSE s.params[CHOOSE h \in holders : TRUE].on_redefinition
        same == kwargs # 0 /\ held # Absent
    IN  [s EXCEPT !.cls[o] = "LazyRegistry",
                  !.params[o] = Stored(nargs, filename,
                                       IF same THEN held
                                       ELSE IF kwargs = 0 THEN on_redefinition
                                       ELSE Absent,
                                       IF same THEN kwargs ELSE o)]

\* `kwargs["on_redefinition"] = "raise"` on the dict handle o stores: every
\* handle that stores the same dict sees the entry.
kwargs__setitem__(s, o, value) ==
    [s EXCEPT !.params = [h \in Objs |->
        IF s.params[h].kwargs = s.params[o].kwargs
        THEN [s.params[h] EXCEPT !.on_redefinition = value]
        ELSE s.params[h]]]

\* LazyRegistry.__init constructing without the assignment to __class__.
LazyRegistry__init_NoSwap(s, o) ==
    LET s1 == kwargs__setitem__(s, o, "raise")
        r3 == UnitRegistry__init__(s1, o, s1.params[o].nargs,
                                   s1.params[o].filename,
                                   s1.params[o].on_redefinition)
    IN  IF r3.exc # NoExc THEN r3
        ELSE After_init(r3.s, o)

\* LazyRegistry.__init passing the stored keyword arguments as they are.
LazyRegistry__init_NoForce(s, o) ==
    LET s2 == object__setattr__(s, o, "__class__", "UnitRegistry")
        r3 == UnitRegistry__init__(s2, o, s2.params[o].nargs,
                                   s2.params[o].filename,
                                   s2.params[o].on_redefinition)
    IN  IF r3.exc # NoExc THEN r3
        ELSE After_init(r3.s, o)

\* LazyRegistry.__init without the call of _after_init.
LazyRegistry__init_NoAfterInit(s, o) ==
    LET s1 == kwargs__setitem__(s, o, "raise")
        s2 == object__setattr__(s1, o, "__class__", "UnitRegistry")
    IN  UnitRegistry__init__(s2, o, s2.params[o].nargs,
                             s2.params[o].filename,
                             s2.params[o].on_redefinition)

\* LazyRegistry.__init (the private method that materializes the handle).
\* The assignment to __class__ goes through LazyRegistry.__setattr__, whose
\* "__class__" branch is object.__setattr__.
LazyRegistry__init(s, o) ==
    LET s1 == kwargs__setitem__(s, o, "raise")
        s2 == object__setattr__(s1, o, "__class__", "UnitRegistry")
        r3 == UnitRegistry__init__(s2, o, s2.params[o].nargs,
                                   s2.params[o].filename,
                                   s2.params[o].on_redefinition)
    IN  IF r3.exc # NoExc THEN r3
        ELSE After_init(r3.s, o)

\* The re-dispatch `getattr(self, item)`, `setattr(self, key, value)`,
\* `self[item]`, `self(...)` after __init: it reaches the registry when the
\* class has been swapped, and the same LazyRegistry method again otherwise.
Redispatch(r, o, again) ==
    IF r.s.cls[o] = "LazyRegistry" THEN Raise(r.s, "RecursionError", "")
    ELSE again

\* LazyRegistry.__getattr__ answering every name itself.
LazyRegistry__getattr___AnswerAll(s, o, item) == Out(s, RetValue("raise"))

\* LazyRegistry.__getattr__(self, item): called when the normal lookup fails.
LazyRegistry__getattr__(s, o, item) ==
    IF item = "_on_redefinition" THEN Out(s, RetValue("raise"))
    ELSE LET r == LazyRegistry__init(s, o) IN
         IF r.exc # NoExc THEN r
         ELSE Redispatch(r, o, Registry__getattr(r.s, o, item))

\* LazyRegistry.__setattr__ without the branch for __class__.
LazyRegistry__setattr___L235_NoBypass(key) == "self.__init()"

\* LazyRegistry.__setattr__, `if key == "__class__":`: the statement the
\* method goes on to.
LazyRegistry__setattr___L235(key) ==
    IF key = "__class__" THEN "L236" ELSE "self.__init()"

\* LazyRegistry.__setattr__, `super()` of line 236: super() without
\* arguments is super(LazyRegistry, self), a TypeError when self is no longer
\* an instance of LazyRegistry.
LazyRegistry__setattr___L236_super(s, o) ==
    IF isinstance(s, o, "LazyRegistry")
    THEN Out(s, Ret("super", o, "LazyRegistry"))
    ELSE Raise(s, "TypeError", "super")

\* LazyRegistry.__setattr__, `.__setattr__(key, value)` of line 236 on the
\* proxy super() returned: object.__setattr__ on self, whatever the class of
\* self is by then.
LazyRegistry__setattr___L236_call(s, o, key, value) ==
    Out(object__setattr__(s, o, key, value), RetNone)

\* LazyRegistry.__setattr__, `super().__setattr__(key, value)`
LazyRegistry__setattr___L236(s, o, key, value) ==
    LET r == LazyRegistry__setattr___L236_super(s, o) IN
    IF r.exc # NoExc THEN r
    ELSE LazyRegistry__setattr___L236_call(r.s, o, key, value)

\* LazyRegistry.__setattr__(self, key, value)
LazyRegistry__setattr__(s, o, key, value) ==
    IF LazyRegistry__setattr___L235(key) = "L236"
    THEN LazyRegistry__setattr___L236(s, o, key, value)
    ELSE LET r == LazyRegistry__init(s, o) IN
         IF r.exc # NoExc THEN r
         ELSE Redispatch(r, o,
                  Out(object__setattr__(r.s, o, key, value), RetNone))

\* LazyRegistry.__getitem__(self, item)
LazyRegistry__getitem__(s, o, item) ==
    LET r == LazyRegistry__init(s, o) IN
    IF r.exc # NoExc THEN r
    ELSE Redispatch(r, o, RegistryOp(r.s, o, "getitem", item))

\* LazyRegistry.__call__(self, *args, **kwargs)
LazyRegistry__call__(s, o, arg) ==
    LET r == LazyRegistry__init(s, o) IN
    IF r.exc # NoExc THEN r
    ELSE Redispatch(r, o, RegistryOp(r.s, o, "call", arg))

(***************************************************************************)
(* The operations of the language, dispatched on the class the object has  *)
(* at the time of the operation.  d is the call depth left: forwarding     *)
(* through a cycle of indirection handles ends in a RecursionError.        *)
(***************************************************************************)
RecursionLimit == MaxObjs + 1

RECURSIVE getattr(_, _, _, _)
RECURSIVE setattr(_, _, _, _, _)
RECURSIVE getitem(_, _, _, _)
RECURSIVE call(_, _, _, _)
RECURSIVE contains_method(_, _, _, _)
RECURSIVE iter(_, _, _)

(***************************************************************************)
(* ApplicationRegistry                                                     *)
(***************************************************************************)
ApplicationRegistry__slots__ == {"_registry"}

\* ApplicationRegistry.__setattr__(self, name, value)
ApplicationRegistry__setattr__(s, a, name, value, d) ==
    IF name \in ApplicationRegistry__slots__
    THEN Out([s EXCEPT !.registry[a] = value], RetNone)
    ELSE setattr(s, s.registry[a], name, value, d)

\* ApplicationRegistry.__init__(self, registry)
ApplicationRegistry__init__(s, a, target) ==
    ApplicationRegistry__setattr__(
        [s EXCEPT !.cls[a] = "ApplicationRegistry"], a, "_registry", target,
        RecursionLimit).s

\* ApplicationRegistry.get reading an attribute of the target on the way.
ApplicationRegistry_get_Touching(s, a) ==
    Out(getattr(s, s.registry[a], "fmt_locale", RecursionLimit).s,
        RetRef(s.registry[a]))

\* ApplicationRegistry.get(self)
ApplicationRegistry_get(s, a) == Out(s, RetRef(s.registry[a]))

\* ApplicationRegistry.set storing an indirection handle as it is given.
ApplicationRegistry_set_NoUnwrap(s, a, new_registry) ==
    IF ~(isinstance(s, new_registry, "LazyRegistry")
         \/ isinstance(s, new_registry, "UnitRegistry")
         \/ isinstance(s, new_registry, s.cls[a]))
    THEN Raise(s, "TypeError", s.cls[new_registry])
    ELSE ApplicationRegistry__setattr__(s, a, "_registry", new_registry,
                                        RecursionLimit)

\* ApplicationRegistry.set accepting every registry type.
ApplicationRegistry_set_AnyRegistry(s, a, new_registry) ==
    LET new == IF isinstance(s, new_registry, s.cls[a])
               THEN ApplicationRegistry_get(s, new_registry).ret.on
               ELSE new_registry
    IN  IF ~(isinstance(s, new, "LazyRegistry")
             \/ isinstance(s, new, "GenericPlainRegistry"))
        THEN Raise(s, "TypeError", s.cls[new])
        ELSE ApplicationRegistry__setattr__(s, a, "_registry", new,
                                            RecursionLimit)

\* ApplicationRegistry.set assigning before it validates.
ApplicationRegistry_set_StoreFirst(s, a, new_registry) ==
    LET new == IF isinstance(s, new_registry, s.cls[a])
               THEN ApplicationRegistry_get(s, new_registry).ret.on
               ELSE new_registry
        r == ApplicationRegistry__setattr__(s, a, "_registry", new,
                                            RecursionLimit)
    IN  IF ~(isinstance(s, new, "LazyRegistry")
             \/ isinstance(s, new, "UnitRegistry"))
        THEN Raise(r.s, "TypeError", s.cls[new])
        ELSE r

\* ApplicationRegistry.set reading an attribute of the old target for its
\* log message.
ApplicationRegistry_set_Logging(s, a, new_registry) ==
    LET new == IF isinstance(s, new_registry, s.cls[a])
               THEN ApplicationRegistry_get(s, new_registry).ret.on
               ELSE new_registry
    IN  IF ~(isinstance(s, new, "LazyRegistry")
             \/ isinstance(s, new, "UnitRegistry"))
        THEN Raise(s, "TypeError", s.cls[new])
        ELSE ApplicationRegistry__setattr__(
                 getattr(s, s.registry[a], "fmt_locale", RecursionLimit).s,
                 a, "_registry", new, RecursionLimit)

\* ApplicationRegistry.set moving every handle that shares the old target.
ApplicationRegistry_set_Linked(s, a, new_registry) ==
    LET new == IF isinstance(s, new_registry, s.cls[a])
               THEN ApplicationRegistry_get(s, new_registry).ret.on
               ELSE new_registry
        r == ApplicationRegistry__setattr__(s, a, "_registry", new,
                                            RecursionLimit)
    IN  IF ~(isinstance(s, new, "LazyRegistry")
             \/ isinstance(s, new, "UnitRegistry"))
        THEN Raise(s, "TypeError", s.cls[new])
        ELSE [r EXCEPT !.s.registry =
                 [h \in Objs |->
                     IF s.cls[h] = "ApplicationRegistry"
                        /\ s.registry[h] = s.registry[a]
                     THEN new ELSE r.s.registry[h]]]

\* ApplicationRegistry.set(self, new_registry)
ApplicationRegistry_set(s, a, new_registry) ==
    LET new == IF isinstance(s, new_registry, s.cls[a])
               THEN ApplicationRegistry_get(s, new_registry).ret.on
               ELSE new_registry
    IN  IF ~(isinstance(s, new, "LazyRegistry")
             \/ isinstance(s, new, "UnitRegistry"))
        THEN Raise(s, "TypeError", s.cls[new])
        ELSE ApplicationRegistry__setattr__(s, a, "_registry", new,
                                            RecursionLimit)

\* ApplicationRegistry.__getattr__(self, name): called when the normal
\* lookup on the handle fails.
ApplicationRegistry__getattr__(s, a, name, d) ==
    getattr(s, s.registry[a], name, d)

\* ApplicationRegistry.__getitem__(self, item)
ApplicationRegistry__getitem__(s, a, item, d) ==
    getitem(s, s.registry[a], item, d)

\* ApplicationRegistry.__call__(self, *args, **kwargs)
ApplicationRegistry__call__(s, a, arg, d) ==
    call(s, s.registry[a], arg, d)

\* ApplicationRegistry.__contains__(self, item): reads the attribute
\* __contains__ of the target and calls it.
ApplicationRegistry__contains__(s, a, item, d) ==
    contains_method(s, s.registry[a], item, d)

\* ApplicationRegistry.__iter__(self)
ApplicationRegistry__iter__(s, a, d) ==
    iter(s, s.registry[a], d)

(***************************************************************************)
(* Dispatch.                                                               *)
(***************************************************************************)
\* getattr(o, name): the normal lookup (the instance __dict__ and slots),
\* then the __getattr__ of the class.
getattr(s, o, name, d) ==
    IF d = 0 THEN Raise(s, "RecursionError", "") ELSE
    CASE s.cls[o] = "LazyRegistry" ->
            IF name = "params"
            THEN Out(s, Ret("params", s.params[o].nargs,
                            s.params[o].on_redefinition))
            ELSE LazyRegistry__getattr__(s, o, name)
      [] s.cls[o] = "ApplicationRegistry" ->
            IF name \in ApplicationRegistry__slots__
            THEN Out(s, RetRef(s.registry[o]))
            ELSE ApplicationRegistry__getattr__(s, o, name, d - 1)
      [] s.cls[o] \in RegistryClasses -> Registry__getattr(s, o, name)
      [] OTHER -> Raise(s, "AttributeError", name)

\* setattr(o, name, value)
setattr(s, o, name, value, d) ==
    IF d = 0 THEN Raise(s, "RecursionError", "") ELSE
    CASE s.cls[o] = "LazyRegistry" -> LazyRegistry__setattr__(s, o, name, value)
      [] s.cls[o] = "ApplicationRegistry" ->
            ApplicationRegistry__setattr__(s, o, name, value, d - 1)
      [] s.cls[o] \in RegistryClasses ->
            Out(object__setattr__(s, o, name, value), RetNone)
      [] OTHER -> Raise(s, "AttributeError", name)

\* o[item]
getitem(s, o, item, d) ==
    IF d = 0 THEN Raise(s, "RecursionError", "") ELSE
    CASE s.cls[o] = "LazyRegistry" -> LazyRegistry__getitem__(s, o, item)
      [] s.cls[o] = "ApplicationRegistry" ->
            ApplicationRegistry__getitem__(s, o, item, d - 1)
      [] s.cls[o] \in RegistryClasses -> RegistryOp(s, o, "getitem", item)
      [] OTHER -> Raise(s, "TypeError", s.cls[o])

\* o(arg)
call(s, o, arg, d) ==
    IF d = 0 THEN Raise(s, "RecursionError", "") ELSE
    CASE s.cls[o] = "LazyRegistry" -> LazyRegistry__call__(s, o, arg)
      [] s.cls[o] = "ApplicationRegistry" ->
            ApplicationRegistry__call__(s, o, arg, d - 1)
      [] s.cls[o] \in RegistryClasses -> RegistryOp(s, o, "call", arg)
      [] OTHER -> Raise(s, "TypeError", s.cls[o])

\* o.__contains__(item): the attribute is read from o, then called.  A
\* LazyRegistry has no such attribute, so the read goes to its __getattr__,
\* which materializes it and returns the bound method of the registry.
contains_method(s, o, item, d) ==
    IF d = 0 THEN Raise(s, "RecursionError", "") ELSE
    CASE s.cls[o] = "LazyRegistry" ->
            LET r == LazyRegistry__getattr__(s, o, "__contains__") IN
            IF r.exc # NoExc THEN r
            ELSE RegistryOp(r.s, r.ret.on, "contains", item)
      [] s.cls[o] = "ApplicationRegistry" ->
            ApplicationRegistry__contains__(s, o, item, d - 1)
      [] s.cls[o] \in RegistryClasses -> RegistryOp(s, o, "contains", item)
      [] OTHER -> Out(s, Ret("str_contains", o, item))

\* The first index of the sequence protocol.
FirstIndex == "0"

\* item in o: the __contains__ of the class of o when it defines one;
\* LazyRegistry defines neither __contains__ nor __iter__ but defines
\* __getitem__, so the language searches o[0], o[1], ... for the item.
contains(s, o, item, d) ==
    IF s.cls[o] = "LazyRegistry"
    THEN LET r == LazyRegistry__getitem__(s, o, FirstIndex) IN
         IF r.exc # NoExc THEN r
         ELSE Out(r.s, Ret("getitem_search", o, item))
    ELSE contains_method(s, o, item, d)

\* iter(o): the __iter__ of the class of o when it defines one; for a
\* LazyRegistry, an iterator over o[0], o[1], ..., which reads nothing yet.
iter(s, o, d) ==
    IF d = 0 THEN Raise(s, "RecursionError", "") ELSE
    CASE s.cls[o] = "LazyRegistry" -> Out(s, Ret("getitem_iter", o, ""))
      [] s.cls[o] = "ApplicationRegistry" ->
            ApplicationRegistry__iter__(s, o, d - 1)
      [] s.cls[o] \in RegistryClasses -> RegistryOp(s, o, "iter", "")
      [] OTHER -> Out(s, Ret("str_iter", o, ""))

(***************************************************************************)
(* Construction of the registry types by application code.                 *)
(***************************************************************************)
\* c(*args, on_redefinition=...) for a registry class c: __init__, then
\* _after_init.  The registry classes other than UnitRegistry take their
\* __init__ from the facets and keep the policy they are given.
Registry__new(s, o, c, nargs, filename, on_redefinition) ==
    LET s0 == [s EXCEPT !.cls[o] = c]
        r  == IF c = "UnitRegistry"
              THEN UnitRegistry__init__(s0, o, nargs, filename,
                                        on_redefinition)
              ELSE GenericUnitRegistry__init__(
                       [s0 EXCEPT !.inits[o] = @ + 1], o, filename,
                       IF on_redefinition # Absent THEN on_redefinition
                       ELSE DefaultOnRedefinition, DefaultFmtLocale)
        a  == After_init(r.s, o)
    IN  IF r.exc # NoExc THEN Raise(s, r.exc, r.ret.arg)
        ELSE IF a.exc # NoExc THEN Raise(s, a.exc, a.ret.arg)
        ELSE Out(a.s, RetRef(o))

(***************************************************************************)
(* The specification: application code creates objects and operates on     *)
(* them, one call at a time.                                               *)
(***************************************************************************)
\* What application code saw of its last call: the operation, the object it
\* was applied to, the name or item and the object passed, and the outcome.
Last(op, self, arg, x, r) ==
    [op |-> op, self |-> self, arg |-> arg, x |-> x,
     ret |-> r.ret, exc |-> r.exc]

\* The state after a call with outcome r.
Apply(op, self, arg, x, r) ==
    /\ cls' = r.s.cls
    /\ params' = r.s.params
    /\ attrs' = r.s.attrs
    /\ registry' = r.s.registry
    /\ inits' = r.s.inits
    /\ ready' = r.s.ready
    /\ last' = Last(op, self, arg, x, r)
    /\ UNCHANGED <<pc, frame, calls, composed>>

\* A thread that is in no call.
Idle == "idle"
\* No composed type looked at.
NoComposed ==
    [type |-> NoClass, derived |-> {}, mro |-> <<>>, defines |-> {},
     resolved |-> NoClass]
NoFrame ==
    [op |-> "", self |-> 0, obj |-> 0, arg |-> "", val |-> "", x |-> 0,
     new |-> 0, d |-> 0, built |-> 0, hist |-> <<>>]

Init ==
    /\ cls = [o \in Objs |-> NoClass]
    /\ params = [o \in Objs |-> NoParams]
    /\ attrs = [o \in Objs |-> NoAttrs]
    /\ registry = [o \in Objs |-> 0]
    /\ inits = [o \in Objs |-> 0]
    /\ ready = [o \in Objs |-> FALSE]
    /\ last = Last("start", 0, "", 0, Out(St, RetNone))
    /\ pc = [t \in Threads |-> Idle]
    /\ frame = [t \in Threads |-> NoFrame]
    /\ calls = 0
    /\ composed = NoComposed

\* The identity of the next object created.
Fresh == Cardinality(Allocated(St)) + 1

\* Application code creates its objects in the order of CreationOrder.  An
\* object takes part in no operation before something refers to it, so every
\* run of the program is, up to the names of the objects, a run in which the
\* objects were created in this order.
CreationOrder ==
    <<"str", "NumpyRegistry", "GenericUnitRegistry", "UnitRegistry",
      "LazyRegistry", "ApplicationRegistry">>
Rank(c) == CHOOSE i \in DOMAIN CreationOrder : CreationOrder[i] = c
CreatedAs(o) == IF LazyBorn(St, o) THEN "LazyRegistry" ELSE cls[o]
MayCreate(c) ==
    /\ Fresh \in Objs /\ Fresh <= MaxCreated
    /\ IF Fresh = 1 THEN TRUE
       ELSE Rank(CreatedAs(Fresh - 1)) <= Rank(c)

\* The objects the operations of a registry are applied to: the registries
\* and the two handles.
Operands == {o \in Allocated(St) : cls[o] # "str"}
Apps == {o \in Allocated(St) : cls[o] = "ApplicationRegistry"}

\* LazyRegistry(args, kwargs)
NewLazy ==
    /\ MayCreate("LazyRegistry")
    /\ \E p \in Params, k \in {0} \cup {params[h].kwargs : h \in Objs} :
          /\ k # 0 => p.on_redefinition = Absent
          /\ Apply("LazyRegistry", Fresh, "", 0,
                   Out(LazyRegistry__init__(St, Fresh, p.nargs, p.filename,
                                            p.on_redefinition, k),
                       RetRef(Fresh)))

\* UnitRegistry(...), GenericUnitRegistry(...), NumpyRegistry(...)
NewRegistry ==
    /\ \E c \in RegistryClasses, p \in {Absent, "raise"} :
          /\ MayCreate(c)
          /\ c # "UnitRegistry" => p = Absent
          /\ Apply(c, Fresh, p, 0, Registry__new(St, Fresh, c, 0, DefaultSource, p))

\* Any object that is neither a registry nor a handle.
NewOther ==
    /\ MayCreate("str")
    /\ Apply("str", Fresh, "", 0, Out([St EXCEPT !.cls[Fresh] = "str"],
                                      RetRef(Fresh)))

\* ApplicationRegistry(registry)
NewApp ==
    /\ MayCreate("ApplicationRegistry")
    /\ \E x \in Allocated(St) :
          Apply("ApplicationRegistry", Fresh, "", x,
                Out(ApplicationRegistry__init__(St, Fresh, x), RetRef(Fresh)))

\* a.get()
Get == \E a \in Apps : Apply("get", a, "", 0, ApplicationRegistry_get(St, a))

\* a.set(x)
Set ==
    \E a \in Apps, x \in Allocated(St) :
        Apply("set", a, "", x, ApplicationRegistry_set(St, a, x))

\* o.name
GetAttr ==
    \E o \in Operands, n \in Names :
        Apply("getattr", o, n, 0, getattr(St, o, n, RecursionLimit))

\* o.name = v; the slot of an indirection handle takes an object.
SetAttr ==
    \E o \in Operands, n \in WriteNames \cup ApplicationRegistry__slots__ :
        \E v \in IF n \in ApplicationRegistry__slots__
                 THEN Allocated(St) ELSE WriteValues :
            /\ n \in ApplicationRegistry__slots__
                  => cls[o] = "ApplicationRegistry"
            /\ Apply("setattr", o, n,
                     IF n \in ApplicationRegistry__slots__ THEN v ELSE 0,
                     setattr(St, o, n, v, RecursionLimit))

\* o[item]
GetItem ==
    \E o \in Operands, i \in Items :
        Apply("getitem", o, i, 0, getitem(St, o, i, RecursionLimit))

\* o(arg)
Call ==
    \E o \in Operands, i \in Items :
        Apply("call", o, i, 0, call(St, o, i, RecursionLimit))

\* item in o
Contains ==
    \E o \in Operands, i \in Items :
        Apply("contains", o, i, 0, contains(St, o, i, RecursionLimit))

\* iter(o)
Iter == \E o \in Operands : Apply("iter", o, "", 0, iter(St, o, RecursionLimit))

Next ==
    \/ NewLazy
    \/ NewRegistry
    \/ NewOther
    \/ NewApp
    \/ Get
    \/ Set
    \/ GetAttr
    \/ SetAttr
    \/ GetItem
    \/ Call
    \/ Contains
    \/ Iter

Spec == Init /\ [][Next]_vars

(***************************************************************************)
(* The same calls, statement by statement.  A thread of the application    *)
(* runs one statement of the call it is in at a step, so the statements of *)
(* two calls interleave in every order; the interpreter makes each         *)
(* statement below one indivisible step.                                   *)
(***************************************************************************)
\* ApplicationRegistry.set, `if isinstance(new_registry, type(self)):
\* new_registry = new_registry.get()`: the value of the local new_registry.
ApplicationRegistry_set_unwrap_Storing(s, a, new_registry) ==
    Out([s EXCEPT !.registry[a] = new_registry],
        IF isinstance(s, new_registry, s.cls[a])
        THEN ApplicationRegistry_get(s, new_registry).ret
        ELSE RetRef(new_registry))

ApplicationRegistry_set_unwrap(s, a, new_registry) ==
    IF isinstance(s, new_registry, s.cls[a])
    THEN ApplicationRegistry_get(s, new_registry)
    ELSE Out(s, RetRef(new_registry))

\* ApplicationRegistry.set, `if not isinstance(new_registry, (LazyRegistry,
\* UnitRegistry)): raise TypeError(...)`
ApplicationRegistry_set_validate(s, new) ==
    IF ~(isinstance(s, new, "LazyRegistry")
         \/ isinstance(s, new, "UnitRegistry"))
    THEN Raise(s, "TypeError", s.cls[new])
    ELSE Out(s, RetNone)

\* ApplicationRegistry.set, `logger.debug("Changing app registry from %r to
\* %r.", self._registry, new_registry)`: reads the slot; the %r of a
\* LazyRegistry is object.__repr__, found by the normal lookup.
ApplicationRegistry_set_log(s, a, new) == Out(s, RetNone)

\* ApplicationRegistry.set, `self._registry = new_registry`
ApplicationRegistry_set_store(s, a, new) ==
    ApplicationRegistry__setattr__(s, a, "_registry", new, RecursionLimit)

\* The statements of LazyRegistry.__init in the order of the source, named
\* by their lines.
LazyRegistry__init_Swapped ==
    <<"L222", "L224", "L223", "L225", "L226">>

LazyRegistry__init_Body ==
    <<"L222", "L223", "L224", "L225", "L226">>

\* `self.__init()` in a method of LazyRegistry: the lookup of the private
\* method on self, which only a LazyRegistry has.
LazyRegistry__init_lookup(s, o) ==
    IF s.cls[o] = "LazyRegistry" THEN Out(s, Ret("method", o, "__init"))
    ELSE getattr(s, o, "_LazyRegistry__init", RecursionLimit)

\* `args, kwargs = self.__dict__["params"]`
LazyRegistry__init_L222(s, o) == Out(s, RetNone)

\* `kwargs["on_redefinition"] = "raise"`: kwargs is the stored dict.
LazyRegistry__init_L223(s, o) ==
    Out(kwargs__setitem__(s, o, "raise"), RetNone)

\* `self.__class__ = UnitRegistry` when self is no longer a LazyRegistry:
\* the __setattr__ of the class self has.  On a LazyRegistry the statement
\* enters LazyRegistry.__setattr__, whose lines 235 and 236 are statements
\* of their own.
LazyRegistry__init_L224(s, o) ==
    setattr(s, o, "__class__", "UnitRegistry", RecursionLimit)

\* `self.__init__(*args, **kwargs)`: the __init__ of the class self has.
\* LazyRegistry.__init__ takes no on_redefinition.
LazyRegistry__init_L225(s, o) ==
    IF s.cls[o] = "LazyRegistry"
    THEN Raise(s, "TypeError", "on_redefinition")
    ELSE UnitRegistry__init__(s, o, s.params[o].nargs,
                              s.params[o].filename,
                              s.params[o].on_redefinition)

\* `self._after_init()`
LazyRegistry__init_L226(s, o) == After_init(s, o)

\* The statement after statement l of LazyRegistry.__init; the re-dispatch
\* of the caller after the last.
AfterStmt(l) ==
    LET i == CHOOSE j \in DOMAIN LazyRegistry__init_Body :
                 LazyRegistry__init_Body[j] = l
    IN  IF i = Len(LazyRegistry__init_Body) THEN "redispatch"
        ELSE LazyRegistry__init_Body[i + 1]

\* The operation op applied to the object t.
Direct(op, s, t, arg, v) ==
    CASE op = "getattr" -> getattr(s, t, arg, RecursionLimit)
      [] op = "setattr" -> setattr(s, t, arg, v, RecursionLimit)
      [] op = "getitem" -> getitem(s, t, arg, RecursionLimit)
      [] op = "call" -> call(s, t, arg, RecursionLimit)
      [] op = "contains" -> contains(s, t, arg, RecursionLimit)
      [] op = "iter" -> iter(s, t, RecursionLimit)

\* The heap after a statement with outcome r.
Heap(r) ==
    /\ cls' = r.s.cls
    /\ params' = r.s.params
    /\ attrs' = r.s.attrs
    /\ registry' = r.s.registry
    /\ inits' = r.s.inits
    /\ ready' = r.s.ready
    /\ UNCHANGED composed

\* The call of thread t returns, or raises, with outcome r.
Return(t, r) ==
    /\ Heap(r)
    /\ last' = Last(frame[t].op, frame[t].self, frame[t].arg, frame[t].x, r)
    /\ pc' = [pc EXCEPT ![t] = Idle]
    /\ frame' = [frame EXCEPT ![t] = NoFrame]
    /\ UNCHANGED calls

\* Thread t has run a statement with outcome r: an exception ends the call,
\* otherwise the thread is at statement l with the locals f.
Goto(t, r, l, f) ==
    IF r.exc # NoExc THEN Return(t, r)
    ELSE /\ Heap(r)
         /\ pc' = [pc EXCEPT ![t] = l]
         /\ frame' = [frame EXCEPT ![t] = f]
         /\ UNCHANGED <<last, calls>>

\* The heaps the statement-by-statement runs start from: a Pending handle,
\* a second Pending handle (storing a dict of its own or the dict of the
\* first) or an indirection handle holding the first, and an indirection
\* handle holding either.
InitHeaps ==
    {[cls |-> [o \in Objs |->
                  CASE o = 1 -> "LazyRegistry"
                    [] o = 2 -> c2
                    [] o = 3 -> "ApplicationRegistry"
                    [] OTHER -> NoClass],
      params |-> [o \in Objs |->
                  CASE o = 1 -> Stored(p.nargs, p.filename, p.on_redefinition, 1)
                    [] o = 2 /\ c2 = "LazyRegistry" ->
                          IF k = 1 /\ p.on_redefinition # Absent
                          THEN Stored(0, DefaultSource, p.on_redefinition, 1)
                          ELSE Stored(0, DefaultSource, Absent, 2)
                    [] OTHER -> NoParams],
      attrs |-> [o \in Objs |-> NoAttrs],
      registry |-> [o \in Objs |->
                  CASE o = 2 /\ c2 = "ApplicationRegistry" -> 1
                    [] o = 3 -> x
                    [] OTHER -> 0],
      inits |-> [o \in Objs |-> 0],
      ready |-> [o \in Objs |-> FALSE]] :
        p \in Params, c2 \in {"LazyRegistry", "ApplicationRegistry"},
        x \in {1, 2}, k \in {1, 2}}

InitT ==
    /\ \E h \in InitHeaps :
          /\ cls = h.cls
          /\ params = h.params
          /\ attrs = h.attrs
          /\ registry = h.registry
          /\ inits = h.inits
          /\ ready = h.ready
    /\ last = Last("start", 0, "", 0, Out(St, RetNone))
    /\ pc = [t \in Threads |-> Idle]
    /\ frame = [t \in Threads |-> NoFrame]
    /\ calls = 0
    /\ composed = NoComposed

\* The calls a thread makes: get and set on an indirection handle, and a
\* read, a write, a subscript or a call on any handle.
TouchCalls ==
    {[op |-> "getattr", arg |-> n, val |-> ""] : n \in AttrNames}
    \cup {[op |-> "setattr", arg |-> n, val |-> v] :
             n \in WriteNames, v \in WriteValues}
    \cup {[op |-> o, arg |-> i, val |-> ""] :
             o \in {"getitem", "call"}, i \in Items}

\* Thread t starts a.get().
BeginGet(t) ==
    /\ pc[t] = Idle /\ calls < MaxCalls
    /\ \E a \in Apps :
          /\ frame' = [frame EXCEPT ![t] =
                           [NoFrame EXCEPT !.op = "get", !.self = a]]
          /\ pc' = [pc EXCEPT ![t] = "L260"]
    /\ calls' = calls + 1
    /\ UNCHANGED <<cls, params, attrs, registry, inits, ready, last, composed>>

\* Thread t starts a.set(x).
BeginSet(t) ==
    /\ pc[t] = Idle /\ calls < MaxCalls
    /\ \E a \in Apps, x \in Allocated(St) :
          /\ frame' = [frame EXCEPT ![t] =
                           [NoFrame EXCEPT !.op = "set", !.self = a, !.x = x,
                                           !.new = x]]
          /\ pc' = [pc EXCEPT ![t] = "L274"]
    /\ calls' = calls + 1
    /\ UNCHANGED <<cls, params, attrs, registry, inits, ready, last, composed>>

\* Thread t starts a read, a write, a subscript or a call on o.
BeginTouch(t) ==
    /\ pc[t] = Idle /\ calls < MaxCalls
    /\ \E o \in Operands, c \in TouchCalls :
          /\ frame' = [frame EXCEPT ![t] =
                           [NoFrame EXCEPT !.op = c.op, !.self = o, !.obj = o,
                                           !.arg = c.arg, !.val = c.val,
                                           !.d = RecursionLimit]]
          /\ pc' = [pc EXCEPT ![t] = "dispatch"]
    /\ calls' = calls + 1
    /\ UNCHANGED <<cls, params, attrs, registry, inits, ready, last, composed>>

\* `return self._registry`
L260(t) ==
    /\ pc[t] = "L260"
    /\ Return(t, ApplicationRegistry_get(St, frame[t].self))

\* `if isinstance(new_registry, type(self)): new_registry = ...get()`
L274(t) ==
    /\ pc[t] = "L274"
    /\ LET r == ApplicationRegistry_set_unwrap(St, frame[t].self, frame[t].x)
       IN  Goto(t, r, "L277", [frame[t] EXCEPT !.new = r.ret.on])

\* `if not isinstance(new_registry, (LazyRegistry, UnitRegistry)): raise`
L277(t) ==
    /\ pc[t] = "L277"
    /\ Goto(t, ApplicationRegistry_set_validate(St, frame[t].new), "L279",
            frame[t])

\* `logger.debug(...)`
L279(t) ==
    /\ pc[t] = "L279"
    /\ Goto(t, ApplicationRegistry_set_log(St, frame[t].self, frame[t].new),
            "L282", frame[t])

\* `self._registry = new_registry`, and set returns.
L282(t) ==
    /\ pc[t] = "L282"
    /\ Return(t, ApplicationRegistry_set_store(St, frame[t].self,
                                               frame[t].new))

\* The operation reaches the object frame[t].obj and is dispatched on the
\* class the object has now.  An indirection handle reads its slot and
\* applies the operation to what it finds there; a LazyRegistry answers the
\* read of _on_redefinition and otherwise goes on to `self.__init()`; a
\* registry performs the operation.
Dispatch(t) ==
    /\ pc[t] = "dispatch"
    /\ LET f == frame[t] IN
       IF f.d = 0 THEN Return(t, Raise(St, "RecursionError", ""))
       ELSE IF cls[f.obj] = "ApplicationRegistry"
       THEN Goto(t, Out(St, RetNone), "dispatch",
                 [f EXCEPT !.obj = registry[f.obj], !.d = @ - 1])
       ELSE IF cls[f.obj] = "LazyRegistry"
       THEN IF f.op = "getattr" /\ f.arg = "_on_redefinition"
            THEN Return(t, LazyRegistry__getattr__(St, f.obj, f.arg))
            ELSE Goto(t, Out(St, RetNone), "self.__init()", f)
       ELSE Return(t, Direct(f.op, St, f.obj, f.arg, f.val))

\* `self.__init()`: the private method is looked up on self and entered.
CallInit(t) ==
    /\ pc[t] = "self.__init()"
    /\ Goto(t, LazyRegistry__init_lookup(St, frame[t].obj),
            LazyRegistry__init_Body[1], frame[t])

\* Thread t runs statement l of LazyRegistry.__init, with outcome r.
Stmt(t, l, r) ==
    /\ pc[t] = l
    /\ Goto(t, r, AfterStmt(l),
            [frame[t] EXCEPT !.hist = Append(@, l),
                             !.built = IF l = "L225" THEN @ + 1 ELSE @])

L222(t) == Stmt(t, "L222", LazyRegistry__init_L222(St, frame[t].obj))
L223(t) == Stmt(t, "L223", LazyRegistry__init_L223(St, frame[t].obj))
\* `self.__class__ = UnitRegistry`: LazyRegistry.__setattr__ is entered when
\* self is a LazyRegistry.
L224(t) ==
    /\ pc[t] = "L224"
    /\ IF cls[frame[t].obj] = "LazyRegistry"
       THEN Goto(t, Out(St, RetNone), "L235", frame[t])
       ELSE Stmt(t, "L224", LazyRegistry__init_L224(St, frame[t].obj))
\* `if key == "__class__":` inside the assignment of line 224.
L235(t) ==
    /\ pc[t] = "L235"
    /\ Goto(t, Out(St, RetNone), LazyRegistry__setattr___L235("__class__"),
            frame[t])
\* `super()` of line 236: the interpreter may switch threads between it and
\* the call of the method it finds.
L236(t) ==
    /\ pc[t] = "L236"
    /\ Goto(t, LazyRegistry__setattr___L236_super(St, frame[t].obj),
            "L236.__setattr__", frame[t])
\* `.__setattr__(key, value)` of line 236, and line 224 is done.
L236_call(t) ==
    /\ pc[t] = "L236.__setattr__"
    /\ Goto(t, LazyRegistry__setattr___L236_call(St, frame[t].obj,
                                                 "__class__", "UnitRegistry"),
            AfterStmt("L224"), [frame[t] EXCEPT !.hist = Append(@, "L224")])
L225(t) == Stmt(t, "L225", LazyRegistry__init_L225(St, frame[t].obj))
L226(t) == Stmt(t, "L226", LazyRegistry__init_L226(St, frame[t].obj))

\* `return getattr(self, item)`, `setattr(self, key, value)`,
\* `return self[item]`, `return self(*args, **kwargs)`
Again(t) ==
    /\ pc[t] = "redispatch"
    /\ LET f == frame[t] IN
       Return(t, Redispatch(Out(St, RetNone), f.obj,
                            Direct(f.op, St, f.obj, f.arg, f.val)))

\* One statement of thread t.
Statement(t) ==
    \/ BeginGet(t)
    \/ BeginSet(t)
    \/ BeginTouch(t)
    \/ L260(t)
    \/ L274(t)
    \/ L277(t)
    \/ L279(t)
    \/ L282(t)
    \/ Dispatch(t)
    \/ CallInit(t)
    \/ L222(t)
    \/ L223(t)
    \/ L224(t)
    \/ L235(t)
    \/ L236(t)
    \/ L236_call(t)
    \/ L225(t)
    \/ L226(t)
    \/ Again(t)

\* Two threads, their statements interleaved in every order.
NextT == \E t \in Threads : Statement(t)

SpecT == InitT /\ [][NextT]_vars

\* One thread.
NextS == Statement(1)

SpecS == InitT /\ [][NextS]_vars

(***************************************************************************)
(* The composed types: a composed type is linearized, under some choice    *)
(* of the facet classes that build on the plain class, and an operation    *)
(* that some facets define is looked up in it.                             *)
(***************************************************************************)
\* The method resolution order of a composed type is computed.
Linearize ==
    /\ composed.type = NoClass
    /\ \E c \in ComposedTypes, dv \in SUBSET (Facets \ {"plain"}) :
          composed' = [NoComposed EXCEPT !.type = c, !.derived = dv,
                                         !.mro = Mro(c, dv)]
    /\ UNCHANGED <<cls, params, attrs, registry, inits, ready, last, pc,
                   frame, calls>>

\* An operation that the facets in D define is looked up on the type.
Lookup ==
    /\ composed.type # NoClass /\ composed.defines = {}
    /\ \E D \in SUBSET Facets \ {{}} :
          composed' = [composed EXCEPT !.defines = D,
                                       !.resolved = Resolve(composed.mro, D)]
    /\ UNCHANGED <<cls, params, attrs, registry, inits, ready, last, pc,
                   frame, calls>>

NextM == Linearize \/ Lookup

SpecM == Init /\ [][NextM]_vars

(***************************************************************************)
(* Two indirection handles and two registries: the calls of Spec that      *)
(* create nothing, from a heap that holds two Pending handles and one      *)
(* ApplicationRegistry on each.                                            *)
(***************************************************************************)
InitH ==
    /\ \E p \in Params :
          /\ cls = [o \in Objs |->
                       CASE o \in {1, 2} -> "LazyRegistry"
                         [] o \in {3, 4} -> "ApplicationRegistry"
                         [] OTHER -> NoClass]
          /\ params = [o \in Objs |->
                       CASE o = 1 -> Stored(p.nargs, p.filename, p.on_redefinition, 1)
                         [] o = 2 -> Stored(0, DefaultSource, Absent, 2)
                         [] OTHER -> NoParams]
    /\ attrs = [o \in Objs |-> NoAttrs]
    /\ registry = [o \in Objs |->
                       CASE o = 3 -> 1
                         [] o = 4 -> 2
                         [] OTHER -> 0]
    /\ inits = [o \in Objs |-> 0]
    /\ ready = [o \in Objs |-> FALSE]
    /\ last = Last("start", 0, "", 0, Out(St, RetNone))
    /\ pc = [t \in Threads |-> Idle]
    /\ frame = [t \in Threads |-> NoFrame]
    /\ calls = 0
    /\ composed = NoComposed

NextH ==
    \/ Get
    \/ Set
    \/ GetAttr
    \/ SetAttr
    \/ GetItem
    \/ Call
    \/ Contains
    \/ Iter

SpecH == InitH /\ [][NextH]_vars

(***************************************************************************)
(* Properties.                                                             *)
(***************************************************************************)
\* The four touches of a handle.
TouchOps == {"getattr", "setattr", "getitem", "call"}

\* The last call was a touch applied directly to an object created as a
\* LazyRegistry.
TouchedLazy ==
    /\ last.op \in TouchOps /\ last.self \in Objs
    /\ LazyBorn(St, last.self)

\* The attribute reads that the handle answers without constructing: the
\* name __getattr__ answers itself, and the names the normal lookup finds.
AnsweredPending == {"_on_redefinition", "params"}

\* The last call was a read of one of these names.
LastReadAnswered == last.op = "getattr" /\ last.arg \in AnsweredPending

\* C1 as stated: after any touch of a handle created as a LazyRegistry,
\* whatever the touch (for a read: of any attribute of a registry),
\* construction has run exactly once on it.
C1_Original ==
    TouchedLazy /\ (last.op = "getattr" => last.arg \in AttrNames)
        => inits[last.self] = 1

\* The stored positional arguments leave on_redefinition to the keyword, so
\* that the call `self.__init__(*args, **kwargs)` binds its arguments.
Binds(s, o) == s.params[o].nargs < OnRedefinitionPos

\* C1, amended: construction runs at most once on a handle, never while it is
\* Pending; a handle that is no longer Pending has been constructed once,
\* unless the call of the constructor could not bind its arguments; after
\* every touch other than a read of _on_redefinition or params the handle is
\* no longer Pending; and a handle that has left Pending never returns to it
\* nor is constructed again.
C1_Inv ==
    /\ \A o \in Objs : LazyBorn(St, o) =>
          /\ inits[o] <= 1
          /\ Pending(St, o) => inits[o] = 0
          /\ ~Pending(St, o) => inits[o] = IF Binds(St, o) THEN 1 ELSE 0
    /\ TouchedLazy /\ ~LastReadAnswered => ~Pending(St, last.self)

C1_Step ==
    \A o \in Objs : LazyBorn(St, o) /\ ~Pending(St, o) =>
        /\ cls'[o] = cls[o]
        /\ inits'[o] = inits[o]
        /\ LazyBorn(St', o)

C1_ExactlyOnce == []C1_Inv /\ [][C1_Step]_vars

\* A handle written through and then subscripted, with no indirection handle
\* around: two touches, one construction.
C1_Witness ==
    /\ Apps = {}
    /\ last.op = "getitem" /\ last.exc = NoExc
    /\ LazyBorn(St, last.self)
    /\ attrs[last.self]["_on_redefinition"] \in WriteValues
    /\ inits[last.self] = 1

\* The operations an indirection handle forwards.
ForwardOps == TouchOps \cup {"contains", "iter"}

\* The step is a forwarded operation on an indirection handle (not a write
\* of its own slot).
Forwarded ==
    /\ last'.op \in ForwardOps
    /\ cls[last'.self] = "ApplicationRegistry"
    /\ ~(last'.op = "setattr" /\ last'.arg \in ApplicationRegistry__slots__)

\* C2: materialization is in place.  Whenever a step takes a handle o out of
\* Pending, the object o itself has become a UnitRegistry that still holds its
\* stored arguments and, when the step raised nothing, is fully constructed;
\* every indirection handle that held o still holds o, get() returns the
\* reference it returned before, and an operation through such a handle is
\* answered by the registry o without further construction.  A forwarded
\* operation changes the target of no indirection handle.
C2_Step ==
    /\ \A o \in Objs : Pending(St, o) /\ ~Pending(St', o) =>
          /\ cls'[o] = "UnitRegistry"
          /\ params'[o].nargs = params[o].nargs
          /\ last'.exc = NoExc => ready'[o]
          /\ \A a \in Objs : cls[a] = "ApplicationRegistry" /\ registry[a] = o =>
                /\ registry'[a] = o
                /\ ApplicationRegistry_get(St', a) =
                      Out(St', ApplicationRegistry_get(St, a).ret)
                /\ ready'[o] => \A i \in Items :
                      getitem(St', a, i, RecursionLimit) =
                          Out(St', Ret("getitem", o, i))
    /\ Forwarded => registry' = registry

C2_InPlace == [][C2_Step]_vars

\* Two indirection handles hold the same handle, materialized by an
\* operation through one of them.
C2_Witness ==
    /\ last.op \in TouchOps /\ last.exc = NoExc
    /\ last.self \in Apps
    /\ \E b \in Apps : /\ b # last.self
                       /\ registry[b] = registry[last.self]
                       /\ LazyBorn(St, registry[b])
                       /\ ready[registry[b]]
                       /\ inits[registry[b]] = 1

\* The object a candidate stands for: the target of an indirection handle,
\* the candidate itself otherwise.
Unwrapped(s, x) == IF s.cls[x] = "ApplicationRegistry" THEN s.registry[x] ELSE x

\* C3: after a.set(x) returns, a.get() is x when x is a LazyRegistry or a
\* UnitRegistry, and the target x had at the call when x is an
\* ApplicationRegistry.
C3_Step ==
    last'.op = "set" /\ last'.exc = NoExc =>
        ApplicationRegistry_get(St', last'.self).ret =
            RetRef(IF cls[last'.x] = "ApplicationRegistry"
                   THEN registry[last'.x] ELSE last'.x)

C3_RoundTrip == [][C3_Step]_vars

\* set was given another indirection handle and get() returns that handle's
\* target.
C3_Witness ==
    /\ last.op = "set" /\ last.exc = NoExc
    /\ cls[last.x] = "ApplicationRegistry" /\ last.x # last.self
    /\ registry[last.self] = registry[last.x]

\* A candidate that is neither a handle nor a registry: an unrelated object,
\* or an indirection handle whose target is one.
InvalidCandidate(s, x) == s.cls[Unwrapped(s, x)] = "str"

\* C4: set with such a candidate raises TypeError naming the type of the
\* object it rejected, changes nothing, and get() returns what it returned
\* before.
C4_Step ==
    last'.op = "set" /\ InvalidCandidate(St, last'.x) =>
        /\ last'.exc = "TypeError"
        /\ last'.ret.arg = cls[Unwrapped(St, last'.x)]
        /\ St' = St
        /\ ApplicationRegistry_get(St', last'.self).ret =
              ApplicationRegistry_get(St, last'.self).ret

C4_InvalidSet == [][C4_Step]_vars

\* A handle holding a pending LazyRegistry has rejected an unrelated object
\* and still holds the LazyRegistry.
C4_Witness ==
    /\ last.op = "set" /\ last.exc = "TypeError" /\ last.ret.arg = "str"
    /\ cls[last.x] = "str"
    /\ cls[registry[last.self]] = "LazyRegistry"

\* C5 as stated: the target of every indirection handle is a LazyRegistry
\* or a registry instance, never an arbitrary object nor another indirection
\* handle.
C5_TargetInvariant ==
    \A a \in Apps :
        cls[registry[a]] \in {"LazyRegistry"} \cup RegistryClasses

\* C6 as stated: set succeeds for every candidate that is a LazyRegistry, an
\* instance of a registry type of the repository, or an indirection handle
\* holding one of these.
C6_Original ==
    last.op = "set"
    /\ cls[Unwrapped(St, last.x)] \in {"LazyRegistry"} \cup RegistryClasses
        => last.exc = NoExc

\* C6, amended: set succeeds exactly when the candidate, or its target when
\* the candidate is an indirection handle, is a LazyRegistry (pending or
\* materialized) or a UnitRegistry; every other candidate, the instances of
\* GenericUnitRegistry and NumpyRegistry among them, is a TypeError.
C6_SetAccepts ==
    last.op = "set" =>
        /\ last.exc \in {NoExc, "TypeError"}
        /\ last.exc = NoExc <=>
              \/ cls[Unwrapped(St, last.x)] = "UnitRegistry"
              \/ cls[Unwrapped(St, last.x)] = "LazyRegistry"
        /\ last.exc = NoExc => registry[last.self] = Unwrapped(St, last.x)

\* set has accepted an indirection handle whose target is a materialized
\* LazyRegistry.
C6_Witness ==
    /\ last.op = "set" /\ last.exc = NoExc
    /\ cls[last.x] = "ApplicationRegistry"
    /\ LazyBorn(St, registry[last.x]) /\ ~Pending(St, registry[last.x])

\* C7: a Pending handle answers 'raise' for its policy without changing, and
\* when its materialization completes, whatever the stored arguments asked
\* for, the policy of the registry it has become is 'raise' and is read as
\* 'raise'.  A step that materializes a handle leaves it with the policy
\* 'raise', unless the step is itself a write of the policy.
C7_Inv ==
    \A o \in Objs : Pending(St, o) =>
        /\ getattr(St, o, "_on_redefinition", RecursionLimit) =
              Out(St, RetValue("raise"))
        /\ LET r == LazyRegistry__init(St, o) IN
           r.exc = NoExc =>
              /\ r.s.attrs[o]["_on_redefinition"] = "raise"
              /\ getattr(r.s, o, "_on_redefinition", RecursionLimit) =
                    Out(r.s, RetValue("raise"))

C7_Step ==
    \A o \in Objs :
        /\ Pending(St, o) /\ ready'[o]
        /\ ~(last'.op = "setattr" /\ last'.arg = "_on_redefinition")
        => attrs'[o]["_on_redefinition"] = "raise"

C7_PolicyRaise == []C7_Inv /\ [][C7_Step]_vars

\* The policy has been read from a handle that materialized, and is 'raise'.
C7_Witness ==
    /\ last.op = "getattr" /\ last.arg = "_on_redefinition"
    /\ last.ret = RetValue("raise")
    /\ LazyBorn(St, last.self) /\ ready[last.self]
    /\ attrs[last.self]["_on_redefinition"] = "raise"

\* C8 as stated: after a touch of a handle created as a LazyRegistry,
\* whatever the touch (for a read: of any attribute of a registry), the
\* handle is not Pending.
C8_Original ==
    TouchedLazy /\ (last.op = "getattr" => last.arg \in AttrNames)
        => ~Pending(St, last.self)

\* C8, amended: a touch of a Pending handle takes it out of Pending (its class
\* becomes UnitRegistry, and when the touch raises nothing construction has
\* run once and is complete), except a read of _on_redefinition or of
\* params, which is answered and leaves the handle Pending and unconstructed.
C8_Step ==
    \A o \in Objs :
        Pending(St, o) /\ last'.self = o /\ last'.op \in TouchOps =>
            IF last'.op = "getattr" /\ last'.arg \in AnsweredPending
            THEN /\ Pending(St', o)
                 /\ inits'[o] = 0
                 /\ last'.exc = NoExc
            ELSE /\ cls'[o] = "UnitRegistry"
                 /\ last'.exc = NoExc => inits'[o] = 1 /\ ready'[o]

C8_FirstTouch == [][C8_Step]_vars

\* The only object is a handle that a call has materialized.
C8_Witness ==
    /\ Allocated(St) = {1}
    /\ last.op = "call" /\ last.exc = NoExc /\ last.self = 1
    /\ LazyBorn(St, 1) /\ ready[1] /\ inits[1] = 1
    /\ attrs[1]["_on_redefinition"] = "raise"

\* The calls that are not touches: the constructors, get and set.
NonTouchOps ==
    {"LazyRegistry", "ApplicationRegistry", "str", "get", "set"}
    \cup RegistryClasses

\* C9: a Pending handle has had no construction work done, and creating a
\* handle, wrapping one, get() and set() leave every Pending handle Pending
\* and untouched.
C9_Inv ==
    \A o \in Objs : Pending(St, o) =>
        inits[o] = 0 /\ ~ready[o] /\ attrs[o] = NoAttrs

C9_Step ==
    last'.op \in NonTouchOps =>
        /\ \A o \in Objs : Pending(St, o) =>
              Pending(St', o) /\ params'[o] = params[o]
        /\ last'.op = "LazyRegistry" => Pending(St', last'.self)
        /\ inits' = inits \/ last'.op \in RegistryClasses

C9_StaysPending == []C9_Inv /\ [][C9_Step]_vars

\* set has replaced one Pending handle by another, and both are Pending.
C9_Witness ==
    /\ last.op = "set" /\ last.exc = NoExc
    /\ Pending(St, registry[last.self])
    /\ \E o \in Objs : o # registry[last.self] /\ Pending(St, o)

\* C10 as stated: an operation other than get and set on an indirection
\* handle (a read or write of a name that is not its own slot, a subscript, a
\* call, a membership test, an iteration) has the result and the effect of
\* the same operation applied directly to its target, and leaves its target
\* reference unchanged.
C10_Step ==
    Forwarded /\ last'.arg \notin ApplicationRegistry__slots__ =>
        \E v \in WriteValues :
            LET d == Direct(last'.op, St, registry[last'.self], last'.arg, v)
            IN  /\ St' = d.s
                /\ last'.ret = d.ret
                /\ last'.exc = d.exc
                /\ registry'[last'.self] = registry[last'.self]

C10_Forwarding == [][C10_Step]_vars

\* UnitRegistry(*args, on_redefinition='raise') built eagerly from the stored
\* arguments of the Pending handle o, in the place of o.
EagerEquivalent(s, o) ==
    Registry__new([s EXCEPT !.params[o] = NoParams, !.cls[o] = NoClass], o,
                  "UnitRegistry", s.params[o].nargs, s.params[o].filename,
                  "raise")

\* The operation op applied to that registry; the failure of its
\* construction when it cannot be built.
OnEagerEquivalent(op, s, o, arg, v) ==
    LET e == EagerEquivalent(s, o) IN
    IF e.exc # NoExc THEN e ELSE Direct(op, e.s, o, arg, v)

\* The step applies an operation of the registry surface directly to a
\* Pending handle: an attribute of a registry is read or written, or the
\* handle is subscripted, called, searched or iterated.  The reads the handle
\* answers while Pending (C8) are not among them.
SurfaceOnPending ==
    /\ last'.op \in ForwardOps
    /\ last'.self \in Objs /\ Pending(St, last'.self)
    /\ last'.arg \notin AnsweredPending \cup ApplicationRegistry__slots__

\* C11 as stated: every operation of the registry surface (attribute access,
\* subscript, call, membership, iteration) on a Pending handle takes the
\* handle out of Pending and returns, or raises, what the same operation returns or raises on the
\* UnitRegistry built eagerly from the same arguments with
\* on_redefinition='raise'.
C11_Step ==
    SurfaceOnPending =>
        \E v \in WriteValues :
            LET e == OnEagerEquivalent(last'.op, St, last'.self, last'.arg, v)
            IN  /\ last'.ret = e.ret
                /\ last'.exc = e.exc
                /\ ~Pending(St', last'.self)

C11_Surface == [][C11_Step]_vars

\* C11 restricted to the four operations the handle defines: attribute
\* access, subscript and call.
C11_DefinedOps ==
    [][last'.op \in TouchOps => C11_Step]_vars

\* The statements of set before its assignment.
SetBeforeStore == {"L274", "L277", "L279"}

\* C12: set is one atomic swap of the reference.  Whatever the interleaving
\* of the threads, the target of an indirection handle changes only at the
\* last statement of a set on that handle, once, to the local new_registry,
\* which by then is the unwrapped candidate and has passed validation; every
\* earlier statement of set leaves the heap as it is; and a get, or the read
\* of the slot by a forwarded operation, running at any point between the
\* statements of a set yields the target the handle holds at that instant,
\* which is therefore the old target or the new one.
C12_Step ==
    /\ registry' # registry =>
          \E t \in Threads :
              /\ pc[t] = "L282" /\ pc'[t] = Idle
              /\ registry' = [registry EXCEPT ![frame[t].self] = frame[t].new]
              /\ cls[frame[t].new] \in {"LazyRegistry", "UnitRegistry"}
    /\ \A t \in Threads :
          /\ pc[t] \in SetBeforeStore /\ pc'[t] # pc[t] => St' = St
          /\ pc[t] = "L260" /\ pc'[t] # pc[t] =>
                /\ last'.ret = RetRef(registry[frame[t].self])
                /\ St' = St
          /\ pc[t] = "dispatch" /\ cls[frame[t].obj] = "ApplicationRegistry"
             /\ pc'[t] = "dispatch" /\ frame'[t] # frame[t] =>
                /\ frame'[t].obj = registry[frame[t].obj]
                /\ St' = St

C12_AtomicSet == [][C12_Step]_vars

\* A get on a handle is at its read while a set on that handle by another
\* thread, given an indirection handle, has unwrapped and validated it and is
\* about to assign a target different from the one the handle holds.
C12_Witness ==
    \E r \in Threads, w \in Threads :
        /\ r # w
        /\ pc[r] = "L260" /\ pc[w] = "L282"
        /\ frame[w].self = frame[r].self
        /\ cls[frame[w].x] = "ApplicationRegistry"
        /\ frame[w].new # frame[w].x
        /\ frame[w].new # registry[frame[r].self]

\* The statements a thread is at inside a method of LazyRegistry that
\* materializes: the call of __init, its body, and the re-dispatch.
InLazyMethod ==
    {"self.__init()", "redispatch"} \cup Range(LazyRegistry__init_Body)

\* Thread t returns, at this step, from a touch that found the handle
\* Pending and set out to materialize it.
ReturnsFromFirstTouch(t) ==
    /\ pc[t] \in InLazyMethod /\ pc'[t] = Idle

\* C13 as stated: with the statements of two threads interleaved in every
\* order, construction runs at most once on a handle, and every touch that
\* found a handle Pending (its stored arguments being ones a registry can be
\* built from) returns without an exception from a handle that is fully
\* constructed, constructed once.
C13_Inv == \A o \in Objs : LazyBorn(St, o) => inits[o] <= 1

C13_Step ==
    \A t \in Threads :
        ReturnsFromFirstTouch(t) /\ params[frame[t].obj].nargs = 0 =>
            /\ last'.exc = NoExc
            /\ ready'[frame[t].obj]
            /\ inits'[frame[t].obj] = 1

C13_Concurrent == []C13_Inv /\ [][C13_Step]_vars

\* The precedence order of the facets, most specific first.
PrecedenceOrder ==
    <<"system", "context", "dask", "numpy", "measurement",
      "nonmultiplicative", "plain">>

\* The facets of the classes of a linearization, in its order.
RECURSIVE FacetsIn(_)
FacetsIn(mro) ==
    IF mro = <<>> THEN <<>>
    ELSE IF IsFacetClass(Head(mro))
         THEN <<FacetOf(Head(mro))>> \o FacetsIn(Tail(mro))
         ELSE FacetsIn(Tail(mro))

\* The first facet of the precedence order among those in D.
Earliest(D) ==
    PrecedenceOrder[CHOOSE i \in DOMAIN PrecedenceOrder :
        /\ PrecedenceOrder[i] \in D
        /\ \A j \in DOMAIN PrecedenceOrder :
              PrecedenceOrder[j] \in D => i <= j]

\* C14: each composed type (Quantity, Unit, GenericUnitRegistry and with it
\* UnitRegistry) has a linearization, whichever facet classes build on the
\* plain class; the facet classes come in it in the order system, context,
\* dask, numpy, measurement, non-multiplicative, plain, each once and each of
\* the kind of the type; and an operation defined by a set of facets
\* resolves to the class of the earliest of them in that order, so to the
\* only one when one facet defines it, the later definitions following in
\* the same order for a definition that delegates to the next.
C14_Inv ==
    composed.type # NoClass =>
        /\ "<inconsistent>" \notin Range(composed.mro)
        /\ Head(composed.mro) = composed.type
        /\ FacetsIn(composed.mro) = PrecedenceOrder
        /\ \A i \in DOMAIN composed.mro :
              IsFacetClass(composed.mro[i]) =>
                  KindOfFacetClass(composed.mro[i]) = KindOf(composed.type)
        /\ composed.defines # {} =>
              composed.resolved =
                  FacetClasses[Earliest(composed.defines)][KindOf(composed.type)]

\* An operation that the array facet and the plain facet both define is
\* looked up on Quantity, every facet class building on PlainQuantity, and
\* resolves to NumpyQuantity.
C14_Witness ==
    /\ composed.type = "Quantity"
    /\ composed.derived = Facets \ {"plain"}
    /\ composed.defines = {"numpy", "plain"}
    /\ composed.resolved = "NumpyQuantity"

\* The handle LazyRegistry() after its materialization, in the place of o.
MaterializedDefault(s, o) ==
    LazyRegistry__init(
        LazyRegistry__init__([s EXCEPT !.cls[o] = NoClass,
                                       !.attrs[o] = NoAttrs,
                                       !.inits[o] = 0, !.ready[o] = FALSE],
                             o, 0, DefaultSource, Absent, 0), o).s

\* C15 as stated: a UnitRegistry constructed without on_redefinition has the
\* policy 'raise', the default its documentation gives, which is also the
\* policy of a LazyRegistry() once materialized.
C15_DefaultPolicy ==
    last.op = "UnitRegistry" /\ last.arg = Absent /\ last.exc = NoExc =>
        /\ attrs[last.self]["_on_redefinition"] = "raise"
        /\ attrs[last.self]["_on_redefinition"] =
              MaterializedDefault(St, last.self).attrs[last.self]["_on_redefinition"]

\* Thread t is in LazyRegistry.__init past the assignment to __class__: the
\* constructor or _after_init is about to run on the handle.
PastSwap(t) ==
    /\ pc[t] \in Range(LazyRegistry__init_Body)
    /\ "L224" \in Range(frame[t].hist)

\* C16: one call constructs at most once.  The assignment to __class__ only
\* changes the class of the handle: it starts no construction and touches
\* neither the stored arguments nor the attributes.  From then until
\* _after_init has returned the handle is no LazyRegistry, so that no read
\* and no write of an attribute of the handle, such as the constructor makes,
\* starts a construction; the constructor statement constructs once, and no
\* other statement of __init constructs.
C16_Inv ==
    \A t \in Threads :
        /\ frame[t].built <= 1
        /\ PastSwap(t) =>
              LET o == frame[t].obj IN
              /\ cls[o] # "LazyRegistry"
              /\ \A n \in AttrNames :
                    getattr(St, o, n, RecursionLimit).s.inits = inits
              /\ \A n \in AttrNames, v \in Policies :
                    setattr(St, o, n, v, RecursionLimit).s.inits = inits

C16_Step ==
    \A t \in Threads :
        LET o == frame[t].obj IN
        /\ pc[t] \in {"L224", "L235", "L236"} /\ pc'[t] # pc[t] =>
              /\ pc'[t] \in {"L235", "L236", "L236.__setattr__"}
              /\ St' = St
        /\ pc[t] = "L236.__setattr__" /\ pc'[t] # pc[t] =>
              /\ cls' = [cls EXCEPT ![o] = "UnitRegistry"]
              /\ inits' = inits /\ ready' = ready
              /\ attrs' = attrs /\ params' = params
              /\ pc'[t] # Idle
        /\ pc[t] = "L225" /\ pc'[t] # pc[t] =>
              inits'[o] = inits[o] + (IF Binds(St, o) THEN 1 ELSE 0)
        /\ pc[t] \in {"self.__init()", "L222", "L223", "L226", "redispatch"}
           /\ pc'[t] # pc[t] => inits' = inits

C16_NoReentry == []C16_Inv /\ [][C16_Step]_vars

\* A materialization is in progress: the class is swapped, the constructor
\* has run once, _after_init has not.
C16_Witness ==
    \E t \in Threads :
        /\ pc[t] = "L226" /\ frame[t].built = 1
        /\ cls[frame[t].obj] = "UnitRegistry"
        /\ inits[frame[t].obj] = 1 /\ ~ready[frame[t].obj]
        /\ attrs[frame[t].obj]["_on_redefinition"] = "raise"

\* C17: a touch that materializes runs, in this order and each once,
\* `kwargs["on_redefinition"] = "raise"` on a handle that is still a
\* LazyRegistry, the swap of the class with the policy already forced, the
\* constructor on the swapped handle with the forced arguments, _after_init
\* on the constructed handle, and then the re-dispatch, from which alone the
\* touch returns a result.  The re-dispatch runs the triggering operation
\* once on the registry, which is then fully constructed: a write leaves the
\* written value in the attribute, a read, a subscript and a call return what
\* the registry answers.
C17_Step ==
    \A t \in Threads :
        LET o == frame[t].obj IN
        pc'[t] # pc[t] =>
            /\ pc[t] = "L223" =>
                  cls[o] = "LazyRegistry" /\ inits[o] = 0
            /\ pc[t] = "L224" =>
                  /\ params[o].on_redefinition = "raise"
                  /\ cls[o] = "LazyRegistry" /\ inits[o] = 0
            /\ pc[t] = "L225" =>
                  /\ params[o].on_redefinition = "raise"
                  /\ cls[o] = "UnitRegistry" /\ inits[o] = 0 /\ ~ready[o]
            /\ pc[t] = "L226" =>
                  cls[o] = "UnitRegistry" /\ inits[o] = 1 /\ ~ready[o]
            /\ pc[t] \in InLazyMethod /\ pc'[t] = Idle /\ last'.exc = NoExc =>
                  pc[t] = "redispatch"
            /\ pc[t] = "redispatch" =>
                  /\ frame[t].hist = <<"L222", "L223", "L224", "L225", "L226">>
                  /\ cls[o] = "UnitRegistry" /\ inits[o] = 1 /\ ready[o]
                  /\ pc'[t] = Idle
                  /\ inits' = inits /\ ready' = ready /\ cls' = cls
                  /\ last'.exc = NoExc
                  /\ frame[t].op = "setattr" =>
                        /\ attrs'[o][frame[t].arg] = frame[t].val
                        /\ getattr(St', o, frame[t].arg, RecursionLimit).ret =
                              RetValue(frame[t].val)
                  /\ frame[t].op = "getattr" =>
                        /\ last'.ret = RetValue(attrs[o][frame[t].arg])
                        /\ attrs' = attrs
                  /\ frame[t].op \in {"getitem", "call"} =>
                        last'.ret = Ret(frame[t].op, o, frame[t].arg)

C17_Order == [][C17_Step]_vars

\* A write through an indirection handle has materialized the Pending handle
\* behind it and returned, and the attribute holds the written value, not the
\* policy the constructor stored.
C17_Witness ==
    /\ last.op = "setattr" /\ last.exc = NoExc
    /\ cls[last.self] = "ApplicationRegistry"
    /\ \A t \in Threads : pc[t] = Idle
    /\ \E o \in Objs :
          /\ LazyBorn(St, o) /\ ready[o] /\ inits[o] = 1
          /\ params[o].on_redefinition = "raise"
          /\ attrs[o][last.arg] \in WriteValues
          /\ attrs[o][last.arg] # "raise"

\* Two outcomes that differ at most in the targets of indirection handles.
SameButTargets(d, e) ==
    /\ d.ret = e.ret /\ d.exc = e.exc
    /\ d.s.cls = e.s.cls /\ d.s.params = e.s.params
    /\ d.s.attrs = e.s.attrs
    /\ d.s.inits = e.s.inits /\ d.s.ready = e.s.ready

\* C18: a.set(x) changes nothing but the target of a, and that only when it
\* succeeds: no object changes class, stored arguments, attributes or
\* construction state, so neither the old nor the new target is
\* materialized or re-initialized.  Every operation on the old target (a
\* LazyRegistry or a registry) has after the set the outcome it would have
\* had without it, its later materialization included.  After a set to a
\* different target a write through a lands on the new target and leaves the
\* old one as it is.
C18_Step ==
    last'.op = "set" =>
        LET a == last'.self
            old == registry[a]
            new == registry'[a]
        IN  /\ cls' = cls /\ params' = params /\ attrs' = attrs
            /\ inits' = inits /\ ready' = ready
            /\ \A b \in Objs \ {a} : registry'[b] = registry[b]
            /\ last'.exc # NoExc => registry' = registry
            /\ cls[old] # "ApplicationRegistry" =>
                  \A op \in ForwardOps, n \in AttrNames \cup Items,
                     v \in WriteValues :
                      SameButTargets(Direct(op, St', old, n, v),
                                     Direct(op, St, old, n, v))
            /\ last'.exc = NoExc /\ new # old =>
                  \A n \in WriteNames, v \in WriteValues :
                      LET w == setattr(St', a, n, v, RecursionLimit) IN
                      /\ w.s.cls[old] = cls[old]
                      /\ w.s.attrs[old] = attrs[old]
                      /\ w.s.inits[old] = inits[old]
                      /\ w.s.ready[old] = ready[old]
                      /\ w.exc = NoExc => w.s.attrs[new][n] = v

C18_SetFrame == [][C18_Step]_vars

\* A set has given a handle a materialized registry that was written to, and
\* the other handle of the heap is still Pending.
C18_Witness ==
    /\ last.op = "set" /\ last.exc = NoExc
    /\ LazyBorn(St, registry[last.self]) /\ ready[registry[last.self]]
    /\ attrs[registry[last.self]]["_on_redefinition"] \in WriteValues
    /\ \E o \in Objs : o # registry[last.self] /\ Pending(St, o)

\* C19 as stated: a handle whose class has been swapped has completed its
\* construction, once; a materialization that raises leaves the handle
\* Pending with the arguments it stored.
C19_Inv ==
    \A o \in Objs :
        LazyBorn(St, o) /\ ~Pending(St, o) => ready[o] /\ inits[o] = 1

C19_Step ==
    \A o \in Objs :
        /\ Pending(St, o) /\ last'.op \in TouchOps /\ last'.self = o
        /\ last'.exc \in {"TypeError", "ValueError", "RedefinitionError"}
        => Pending(St', o) /\ params'[o] = params[o]

C19_FailedConstruction == []C19_Inv /\ [][C19_Step]_vars

\* C20: a.set(b) with b an ApplicationRegistry stores the target b holds at
\* the call and leaves b alone; a set on one handle changes what no other
\* handle returns from get; two handles that hold the same target give the
\* same outcome for every read, whatever was done to the target through
\* either.
C20_Step ==
    \A a \in Apps :
        last'.op = "set" /\ last'.self = a /\ last'.exc = NoExc =>
            /\ last'.x \in Apps =>
                  registry'[a] = ApplicationRegistry_get(St, last'.x).ret.on
            /\ \A c \in Apps \ {a} :
                  ApplicationRegistry_get(St', c).ret
                      = ApplicationRegistry_get(St, c).ret

SharedTargetVisible ==
    \A a \in Apps, b \in Apps :
        registry[a] = registry[b] =>
            \A n \in AttrNames :
                getattr(St, a, n, RecursionLimit)
                    = getattr(St, b, n, RecursionLimit)

C20_NoLink == []SharedTargetVisible /\ [][C20_Step]_vars

\* a.set(b) has just moved a from its own target to the one b holds, a
\* Pending handle.
C20_Witness ==
    /\ last.op = "set" /\ last.self = 3 /\ last.x = 4 /\ last.exc = NoExc
    /\ cls[4] = "ApplicationRegistry"
    /\ registry[3] = 2 /\ registry[4] = 2
    /\ Pending(St, 2)

====
